---- MODULE Spec2Model ----
(***************************************************************************)
(* Vocabulary management of superdesk-core:                                *)
(* superdesk/vocabularies/vocabularies.py, VocabulariesService.            *)
(*                                                                         *)
(* A Python dict is a record whose DOMAIN is the set of keys it holds, so  *)
(* "key absent" and "key present with an empty value" stay different.      *)
(* None is the string NULL.  A vocabulary's schema, a dict in insertion    *)
(* order, is a sequence of entries [field |-> f, ...rule keys...].         *)
(* The collection is the set of its documents; a soft-deleted document     *)
(* stays in it with _deleted = TRUE.  The _created/_updated/_etag stamps   *)
(* are not part of the modelled documents.                                 *)
(*                                                                         *)
(* store is the collection, last the request being answered, published     *)
(* the notifications it pushed, calls the add_missing_keywords calls that  *)
(* run in workers of their own, each at its position in the method.        *)
(***************************************************************************)
EXTENDS Integers, Sequences, FiniteSets, TLC

VARIABLES store, last, published, calls

vars == <<store, last, published, calls>>

(* ------------------------------ bounds -------------------------------- *)

MaxItems == 2

MaxBatch == 2

MaxKeywords == 3

(* ------------------------- values and dicts --------------------------- *)

NULL == "<None>"

KEYWORDS_CV == "keywords"

\* str.upper() on the values the model uses
Upper(s) ==
  CASE s \in {"a", "A"} -> "A"
    [] s \in {"b", "B"} -> "B"
    [] s \in {"Paris", "paris", "PARIS"} -> "PARIS"
    [] s \in {"London", "london", "LONDON"} -> "LONDON"
    [] OTHER -> s

\* str.lower() on the values the model uses
Lower(s) ==
  CASE s \in {"a", "A"} -> "a"
    [] s \in {"b", "B"} -> "b"
    [] s \in {"Paris", "paris", "PARIS"} -> "paris"
    [] s \in {"London", "london", "LONDON"} -> "london"
    [] OTHER -> s

\* Python truthiness of a string-or-None value
Truthy(v) == v # NULL /\ v # ""

Has(d, k) == k \in DOMAIN d

\* dict.get(k): None when the key is absent
Get(d, k) == IF k \in DOMAIN d THEN d[k] ELSE NULL

\* d[k] = v
SetKey(d, k, v) == [x \in DOMAIN d \cup {k} |-> IF x = k THEN v ELSE d[x]]

\* d.setdefault(k, v)
SetDefault(d, k, v) == IF k \in DOMAIN d THEN d ELSE SetKey(d, k, v)

\* dict.update on a copy: the keys of upd override those of orig
Merge(orig, upd) ==
  [k \in DOMAIN orig \cup DOMAIN upd |-> IF k \in DOMAIN upd THEN upd[k] ELSE orig[k]]

Range(s) == {s[i] : i \in DOMAIN s}

SeqsUpTo(S, n) == UNION {[1..k -> S] : k \in 0..n}

(* ------------------------------ store --------------------------------- *)

IsDeleted(doc) == Has(doc, "_deleted") /\ doc._deleted

\* find_one(req=None, _id=id): the set holding the live document, empty for
\* None; soft-deleted documents are not seen by a lookup that does not name
\* _deleted
Live(st, id) == {d \in st : d._id = id /\ ~IsDeleted(d)}

\* the document find_one returns when Live(st, id) is not empty
FindOne(st, id) == CHOOSE d \in Live(st, id) : TRUE

\* find_one(req=None, _id=id, _deleted=True)
FindDeleted(st, id) == {d \in st : d._id = id /\ IsDeleted(d)}

(* ---------------------------- validation ------------------------------ *)

Ok == [kind |-> "ok"]

\* badRequestError "Required <field> in item <index>", line 195-197
RequiredError(field, index) == [kind |-> "required", field |-> field, item |-> index]

\* badRequestError '<link_vocab> "<link_field>=<value>" not found', line 208-210
NotFoundError(field, index) == [kind |-> "not_found", field |-> field, item |-> index]

\* faulty variant: the unique field is not treated as required
LacksRequiredFlagOnly(item, entry, unique_field) ==
  /\ Has(entry, "required") /\ entry.required
  /\ ~Has(item, entry.field) \/ ~Truthy(item[entry.field])

\* line 192-194: the field is required or is the unique field, and the item
\* has no non-empty value for it
LacksRequired(item, entry, unique_field) ==
  /\ (Has(entry, "required") /\ entry.required) \/ unique_field = entry.field
  /\ ~Has(item, entry.field) \/ ~Truthy(item[entry.field])

\* line 199
IsLink(entry) == Truthy(Get(entry, "link_vocab")) /\ Truthy(Get(entry, "link_field"))

\* faulty variant: the target items are read by name instead of by link_field
LinkedValuesByName(st, entry) ==
  LET items == IF Live(st, entry.link_vocab) = {} THEN <<>>
               ELSE IF Has(FindOne(st, entry.link_vocab), "items")
                    THEN FindOne(st, entry.link_vocab).items ELSE <<>>
  IN  [i \in DOMAIN items |-> Get(items[i], "name")]

\* line 201-205: the link_field values of the stored target vocabulary
LinkedValues(st, entry) ==
  LET items == IF Live(st, entry.link_vocab) = {} THEN <<>>
               ELSE IF Has(FindOne(st, entry.link_vocab), "items")
                    THEN FindOne(st, entry.link_vocab).items ELSE <<>>
  IN  [i \in DOMAIN items |-> Get(items[i], entry.link_field)]

\* line 200: the cache misses when it has no entry for the vocabulary or an
\* empty list
CacheMiss(vocabs, entry) ==
  ~Has(vocabs, entry.link_vocab) \/ vocabs[entry.link_vocab] = <<>>

\* line 190-210: the two loops, k counting the (item, field) pairs visited so
\* far, vocabs the cache, queries the number of find_one calls made
RECURSIVE ValidateWalk(_, _, _, _, _, _)
ValidateWalk(update, st, unique_field, k, vocabs, queries) ==
  LET m == Len(update.schema)
      n == Len(update.items)
  IN  IF m = 0 \/ k >= n * m
      THEN [err |-> Ok, queries |-> queries]
      ELSE LET index == k \div m
               item == update.items[index + 1]
               entry == update.schema[(k % m) + 1]
           IN  IF LacksRequired(item, entry, unique_field)
               THEN [err |-> RequiredError(entry.field, index), queries |-> queries]
               ELSE IF IsLink(entry)
               THEN LET miss == CacheMiss(vocabs, entry)
                        vocabs2 == IF miss
                                   THEN SetKey(vocabs, entry.link_vocab, LinkedValues(st, entry))
                                   ELSE vocabs
                        queries2 == IF miss THEN queries + 1 ELSE queries
                    IN  IF /\ Truthy(Get(item, entry.field))
                           /\ item[entry.field] \notin Range(vocabs2[entry.link_vocab])
                        THEN [err |-> NotFoundError(entry.field, index), queries |-> queries2]
                        ELSE ValidateWalk(update, st, unique_field, k + 1, vocabs2, queries2)
               ELSE ValidateWalk(update, st, unique_field, k + 1, vocabs, queries)

\* line 181-186: schema has a qcode field
SchemaHasQcode(update) ==
  Has(update, "schema") /\ \E i \in DOMAIN update.schema : update.schema[i].field = "qcode"

\* faulty variant: unique_field is set to qcode over a value the document has
ValidateItemsOverwrites(update, st) ==
  LET doc == IF SchemaHasQcode(update) THEN SetKey(update, "unique_field", "qcode")
             ELSE update
      unique_field == Get(doc, "unique_field")
      walk == IF Has(doc, "schema") /\ Has(doc, "items")
              THEN ValidateWalk(doc, st, unique_field, 0, [v \in {} |-> <<>>], 0)
              ELSE [err |-> Ok, queries |-> 0]
  IN  [doc |-> doc, err |-> walk.err, queries |-> walk.queries]

\* _validate_items: the document as the call leaves it (unique_field may be
\* set), the first error met, the number of store lookups
ValidateItems(update, st) ==
  LET doc == IF SchemaHasQcode(update) THEN SetDefault(update, "unique_field", "qcode")
             ELSE update
      unique_field == Get(doc, "unique_field")
      walk == IF Has(doc, "schema") /\ Has(doc, "items")
              THEN ValidateWalk(doc, st, unique_field, 0, [v \in {} |-> <<>>], 0)
              ELSE [err |-> Ok, queries |-> 0]
  IN  [doc |-> doc, err |-> walk.err, queries |-> walk.queries]

(* ---------------------------- uniqueness ------------------------------ *)

EmptyUniqueError(field) == [kind |-> "empty_unique", field |-> field]

NotUniqueError(field, value) == [kind |-> "not_unique", field |-> field, value |-> value]

\* line 296: not item.get("is_active")
SkippedByCheck(item) == ~(Has(item, "is_active") /\ item.is_active)

\* _check_uniqueness: the loop from item i on, unique_values the upper-cased
\* values seen so far
RECURSIVE CheckFrom(_, _, _, _)
CheckFrom(items, unique_field, i, unique_values) ==
  IF i > Len(items) THEN Ok
  ELSE IF SkippedByCheck(items[i])
       THEN CheckFrom(items, unique_field, i + 1, unique_values)
  ELSE IF ~Truthy(Get(items[i], unique_field))
       THEN EmptyUniqueError(unique_field)
  ELSE IF Upper(items[i][unique_field]) \in unique_values
       THEN NotUniqueError(unique_field, items[i][unique_field])
  ELSE CheckFrom(items, unique_field, i + 1, unique_values \cup {Upper(items[i][unique_field])})

CheckUniqueness(items, unique_field) == CheckFrom(items, unique_field, 1, {})

(* ------------------------------- hooks -------------------------------- *)

\* VocabulariesService.system_keys: the keys of DEFAULT_SCHEMA and
\* DEFAULT_EDITOR; "headline" stands for them
SystemKeys == {"headline"}

ConflictError(id) == [kind |-> "conflict", id |-> id]

DeletedError(id) == [kind |-> "deleted", id |-> id]

\* faulty variant: the lookup for a deleted document does not name _deleted
OnCreateDocLiveLookup(doc, st) ==
  IF ValidateItems(doc, st).err # Ok THEN ValidateItems(doc, st).err
  ELSE IF Truthy(Get(doc, "field_type")) /\ doc._id \in SystemKeys THEN ConflictError(doc._id)
  ELSE IF Live(st, doc._id) # {} THEN DeletedError(doc._id)
  ELSE Ok

\* line 214-222: the body of on_create's loop for one document
OnCreateDoc(doc, st) ==
  IF ValidateItems(doc, st).err # Ok THEN ValidateItems(doc, st).err
  ELSE IF Truthy(Get(doc, "field_type")) /\ doc._id \in SystemKeys THEN ConflictError(doc._id)
  ELSE IF FindDeleted(st, doc._id) # {} THEN DeletedError(doc._id)
  ELSE Ok

\* on_create: the error of the first document that fails, from document i on
RECURSIVE OnCreateFrom(_, _, _)
OnCreateFrom(docs, st, i) ==
  IF i > Len(docs) THEN Ok
  ELSE IF OnCreateDoc(docs[i], st) # Ok THEN OnCreateDoc(docs[i], st)
  ELSE OnCreateFrom(docs, st, i + 1)

\* faulty variant: only the first document of the batch is checked
OnCreateFirstOnly(docs, st) == OnCreateDoc(docs[1], st)

OnCreate(docs, st) == OnCreateFrom(docs, st, 1)

\* the documents as on_create leaves them (_validate_items may set unique_field)
Validated(docs, st) == [i \in DOMAIN docs |-> ValidateItems(docs[i], st).doc]

\* _send_notification
Notification(event, doc) == [event |-> event, vocabulary_id |-> doc._id]

\* on_created
OnCreated(docs) == [i \in DOMAIN docs |-> Notification("vocabularies:created", docs[i])]

\* faulty variant: uniqueness is checked against the unique_field of the
\* merged view, over the merged items
OnUpdateChecksMerged(updates, original, st) ==
  LET updated == Merge(original, updates)
      validation == IF Has(updates, "items") THEN ValidateItems(updated, st).err ELSE Ok
      unique_field == Get(updated, "unique_field")
  IN  IF validation # Ok THEN validation
      ELSE IF Truthy(unique_field)
      THEN CheckUniqueness(IF Has(updated, "items") THEN updated.items ELSE <<>>, unique_field)
      ELSE Ok

\* faulty variant: the merged view is validated, uniqueness is not checked
OnUpdateValidatesOnly(updates, original, st) ==
  IF Has(updates, "items") THEN ValidateItems(Merge(original, updates), st).err ELSE Ok

\* on_update
OnUpdate(updates, original, st) ==
  LET validation == IF Has(updates, "items")
                    THEN ValidateItems(Merge(original, updates), st).err
                    ELSE Ok
      unique_field == Get(original, "unique_field")
  IN  IF validation # Ok THEN validation
      ELSE IF Truthy(unique_field)
      THEN CheckUniqueness(IF Has(updates, "items") THEN updates.items ELSE <<>>, unique_field)
      ELSE Ok

\* on_updated
OnUpdated(updates, original) == <<Notification("vocabularies:updated", original)>>

\* on_replace
OnReplace(document, original, st) == ValidateItems(document, st)

\* on_replaced
OnReplaced(document, original) == <<Notification("vocabularies:updated", document)>>

DefaultVocabularyError == [kind |-> "default_vocabulary"]

\* faulty variant: the test of on_delete is inverted
OnDeleteInverted(doc) == IF Has(doc, "field_type") THEN DefaultVocabularyError ELSE Ok

\* on_delete
OnDelete(doc) == IF ~Has(doc, "field_type") THEN DefaultVocabularyError ELSE Ok

(* --------------------------- service calls ---------------------------- *)

\* BaseService.post: on_create, insert of the whole batch, on_created
Post(docs, st) ==
  IF OnCreate(docs, st) # Ok
  THEN [err |-> OnCreate(docs, st), store |-> st, published |-> <<>>]
  ELSE [err |-> Ok,
        store |-> st \cup Range(Validated(docs, st)),
        published |-> OnCreated(Validated(docs, st))]

\* the store's partial update of one document
Patched(st, original, updates) == (st \ {original}) \cup {Merge(original, updates)}

\* BaseService.patch: on_update, update, on_updated
Patch(original, updates, st) ==
  IF OnUpdate(updates, original, st) # Ok
  THEN [err |-> OnUpdate(updates, original, st), store |-> st, published |-> <<>>]
  ELSE [err |-> Ok,
        store |-> Patched(st, original, updates),
        published |-> OnUpdated(updates, original)]

\* line 428-446: the vocabulary add_missing_keywords creates
KeywordItem(keyword) == [name |-> keyword, qcode |-> keyword, is_active |-> TRUE]

NewKeywordsCv(keywords) ==
  [_id |-> KEYWORDS_CV,
   items |-> [i \in DOMAIN keywords |-> KeywordItem(keywords[i])],
   type |-> "manageable",
   display_name |-> "Keywords",
   unique_field |-> "name",
   schema |-> <<[field |-> "name"], [field |-> "qcode"]>>]

KeyError == [kind |-> "KeyError"]

\* faulty variant: the keyword is compared in its own spelling
MissingCaseSensitive(keywords, existing) ==
  SelectSeq(keywords, LAMBDA keyword : keyword \notin existing)

\* line 413
Missing(keywords, existing) == SelectSeq(keywords, LAMBDA keyword : Lower(keyword) \notin existing)

\* add_missing_keywords
AddMissing(keywords, st) ==
  IF keywords = <<>> THEN [err |-> Ok, store |-> st, published |-> <<>>]
  ELSE IF Live(st, KEYWORDS_CV) = {} THEN Post(<<NewKeywordsCv(keywords)>>, st)
  ELSE LET cv == FindOne(st, KEYWORDS_CV)
           items == IF Has(cv, "items") THEN cv.items ELSE <<>>
       IN  IF \E i \in DOMAIN items : ~Has(items[i], "name")
           THEN [err |-> KeyError, store |-> st, published |-> <<>>]
           ELSE LET existing == {Lower(items[i].name) : i \in DOMAIN items}
                    missing == Missing(keywords, existing)
                    updates == [items |-> items \o [i \in DOMAIN missing |-> KeywordItem(missing[i])]]
                    \* updates["items"] is cv["items"]: the appends reach cv too
                    original == IF Has(cv, "items") THEN SetKey(cv, "items", updates.items) ELSE cv
                IN  IF missing = <<>> THEN [err |-> Ok, store |-> st, published |-> <<>>]
                    ELSE IF OnUpdate(updates, original, st) # Ok
                    THEN [err |-> OnUpdate(updates, original, st), store |-> st, published |-> <<>>]
                    ELSE [err |-> Ok,
                          store |-> Patched(st, cv, updates),
                          published |-> OnUpdated(updates, original)]

(* ------------------------------ actions ------------------------------- *)

\* Processing is synchronous and request-scoped: one call at a time.  last is
\* the call being answered (its arguments, its outcome and the store it
\* started from), published the notifications it pushed; Respond hands the
\* outcome to the caller.
Idle == [op |-> "idle"]

\* the workers that may run add_missing_keywords side by side, and a worker
\* that runs none
Callers == {1, 2}

NoCall == [pc |-> "idle"]

Ids(docs) == {docs[i]._id : i \in DOMAIN docs}

\* POST of a batch; a batch naming a live id, or one id twice, is refused by
\* the resource's unique _id rule before the service is reached
Create(docs) ==
  /\ last = Idle
  /\ docs # <<>>
  /\ Cardinality(Ids(docs)) = Len(docs)
  /\ \A id \in Ids(docs) : Live(store, id) = {}
  /\ store' = Post(docs, store).store
  /\ published' = Post(docs, store).published
  /\ last' = [op |-> "create", docs |-> docs, err |-> Post(docs, store).err, before |-> store]
  /\ UNCHANGED calls

\* PATCH of the live document id
Update(id, updates) ==
  /\ last = Idle
  /\ Live(store, id) # {}
  /\ store' = Patch(FindOne(store, id), updates, store).store
  /\ published' = Patch(FindOne(store, id), updates, store).published
  /\ last' = [op |-> "update", id |-> id, updates |-> updates,
              err |-> Patch(FindOne(store, id), updates, store).err, before |-> store]
  /\ UNCHANGED calls

\* BaseService.put: on_replace, replace, on_replaced
Replace(id, document) ==
  /\ last = Idle
  /\ Live(store, id) # {}
  /\ document._id = id
  /\ LET original == FindOne(store, id)
         r == OnReplace(document, original, store)
     IN  /\ store' = IF r.err = Ok THEN (store \ {original}) \cup {r.doc} ELSE store
         /\ published' = IF r.err = Ok THEN OnReplaced(r.doc, original) ELSE <<>>
         /\ last' = [op |-> "replace", id |-> id, document |-> document,
                     err |-> r.err, before |-> store]
  /\ UNCHANGED calls

\* DELETE of the live document id: on_delete, then the soft delete
Delete(id) ==
  /\ last = Idle
  /\ Live(store, id) # {}
  /\ LET doc == FindOne(store, id)
     IN  /\ store' = IF OnDelete(doc) = Ok
                     THEN (store \ {doc}) \cup {SetKey(doc, "_deleted", TRUE)}
                     ELSE store
         /\ published' = <<>>
         /\ last' = [op |-> "delete", id |-> id, err |-> OnDelete(doc), before |-> store]
  /\ UNCHANGED calls

AddMissingKeywords(keywords) ==
  /\ last = Idle
  /\ store' = AddMissing(keywords, store).store
  /\ published' = AddMissing(keywords, store).published
  /\ last' = [op |-> "add_missing_keywords", keywords |-> keywords,
              err |-> AddMissing(keywords, store).err, before |-> store]
  /\ UNCHANGED calls

Respond ==
  /\ last # Idle
  /\ last' = Idle
  /\ published' = <<>>
  /\ UNCHANGED <<store, calls>>

Init ==
  /\ store = {}
  /\ published = <<>>
  /\ last = Idle
  /\ calls = [p \in Callers |-> NoCall]

(* --------------- Spec: one vocabulary and its unique field ------------- *)

\* items of the keywords vocabulary as an editor may post them
UniqueItems ==
  {[name |-> "Paris", is_active |-> TRUE], [name |-> "paris", is_active |-> TRUE],
   [name |-> "paris", is_active |-> FALSE], [name |-> "paris"]}

UniqueItemLists == SeqsUpTo(UniqueItems, MaxItems)

UniqueDocs ==
  {[_id |-> KEYWORDS_CV, items |-> l] : l \in UniqueItemLists}
  \cup {[_id |-> KEYWORDS_CV, items |-> l, unique_field |-> "name"] : l \in UniqueItemLists}

UniqueUpdates ==
  {[items |-> l] : l \in UniqueItemLists}
  \cup {[items |-> l, unique_field |-> "name"] : l \in UniqueItemLists}
  \cup {[unique_field |-> "name"]}

UniqueKeywords == SeqsUpTo({"Paris", "paris"}, MaxKeywords)

Next ==
  \/ \E doc \in UniqueDocs : Create(<<doc>>)
  \/ \E updates \in UniqueUpdates : Update(KEYWORDS_CV, updates)
  \/ \E doc \in UniqueDocs : Replace(KEYWORDS_CV, doc)
  \/ Delete(KEYWORDS_CV)
  \/ \E keywords \in UniqueKeywords : AddMissingKeywords(keywords)
  \/ Respond

Spec == Init /\ [][Next]_vars

(* ------------------------- claims under Spec -------------------------- *)

\* an item the specification counts as active: is_active is not false
ActiveItem(item) == ~(Has(item, "is_active") /\ item.is_active = FALSE)

\* two active items of the list whose unique_field values are equal ignoring case
ActiveDuplicate(items, unique_field) ==
  \E i, j \in DOMAIN items :
    /\ i < j
    /\ ActiveItem(items[i]) /\ ActiveItem(items[j])
    /\ Upper(Get(items[i], unique_field)) = Upper(Get(items[j], unique_field))

\* C1: in every reachable state, every stored vocabulary with unique_field set
\* holds no two active items whose unique_field values are equal ignoring case.
C1_StoredActiveValuesDistinct ==
  \A doc \in store :
    Truthy(Get(doc, "unique_field")) /\ Has(doc, "items")
      => ~ActiveDuplicate(doc.items, doc.unique_field)

\* C2: an update of a vocabulary whose original declares unique_field, with two
\* active items (is_active not false, absent included) of equal value ignoring
\* case, is rejected with the duplicate-value error.
C2_UpdateWithActiveDuplicateRejected ==
  (/\ last.op = "update"
   /\ Truthy(Get(FindOne(last.before, last.id), "unique_field"))
   /\ Has(last.updates, "items")
   /\ ActiveDuplicate(last.updates.items, FindOne(last.before, last.id).unique_field))
    => last.err.kind = "not_unique"

\* two items of the list with is_active set to true whose unique_field values
\* are equal ignoring case
SetActiveDuplicate(items, unique_field) ==
  \E i, j \in DOMAIN items :
    /\ i < j
    /\ Has(items[i], "is_active") /\ items[i].is_active
    /\ Has(items[j], "is_active") /\ items[j].is_active
    /\ Upper(Get(items[i], unique_field)) = Upper(Get(items[j], unique_field))

\* C15: an update of a vocabulary whose original declares unique_field is
\* rejected when the relevant item list, the update's items if it has items
\* and the original's items if not, holds two active items of equal value
\* ignoring case (stated for items whose is_active is set to true).
C15_UpdateRechecksRelevantItems ==
  (/\ last.op = "update"
   /\ Truthy(Get(FindOne(last.before, last.id), "unique_field")))
    => LET original == FindOne(last.before, last.id)
           relevant == IF Has(last.updates, "items") THEN last.updates.items
                       ELSE IF Has(original, "items") THEN original.items ELSE <<>>
       IN  SetActiveDuplicate(relevant, original.unique_field)
             => last.err # Ok /\ store = last.before

(* ------- SpecValidation: a vocabulary with rules and a link target ----- *)

LinkEntry == [field |-> "country", link_vocab |-> "countries", link_field |-> "qcode"]

RequiredEntry == [field |-> "name", required |-> TRUE]

ValidationItems ==
  {[name |-> "a", country |-> "a"], [name |-> "a", country |-> "b"],
   [country |-> "a"], [name |-> "", country |-> "a"], [name |-> "a"]}

ValidationItemLists == SeqsUpTo(ValidationItems, MaxItems)

ValidationDocs ==
  {[_id |-> "languages", items |-> l, schema |-> <<RequiredEntry, LinkEntry>>] :
     l \in ValidationItemLists}
  \cup {[_id |-> "languages", items |-> l, schema |-> <<LinkEntry, RequiredEntry>>] :
          l \in ValidationItemLists}
  \cup {[_id |-> "languages", items |-> l, schema |-> <<[field |-> "name"], LinkEntry>>,
         unique_field |-> "name"] : l \in ValidationItemLists}

CountryDocs ==
  {[_id |-> "countries", items |-> <<>>],
   [_id |-> "countries", items |-> <<[qcode |-> "a", name |-> "b"]>>]}

ValidationUpdates ==
  {[items |-> l] : l \in ValidationItemLists} \cup {[unique_field |-> "name"]}

NextValidation ==
  \/ \E doc \in ValidationDocs \cup CountryDocs : Create(<<doc>>)
  \/ \E updates \in ValidationUpdates : Update("languages", updates)
  \/ \E doc \in ValidationDocs \cup CountryDocs : Replace(doc._id, doc)
  \/ Respond

SpecValidation == Init /\ [][NextValidation]_vars

(* --------------------- claims under SpecValidation --------------------- *)

\* the call being answered validates a candidate: a create, a replace, or an
\* update that touches items
Validates ==
  \/ last.op \in {"create", "replace"}
  \/ last.op = "update" /\ Has(last.updates, "items")

\* the candidate vocabulary of that call
Candidate ==
  CASE last.op = "create" -> last.docs[1]
    [] last.op = "replace" -> last.document
    [] last.op = "update" -> Merge(FindOne(last.before, last.id), last.updates)

\* (item, field) places of a document with items and a schema, in the order
\* items first, schema fields second
Places(doc) ==
  IF Has(doc, "items") /\ Has(doc, "schema")
  THEN (DOMAIN doc.items) \X (DOMAIN doc.schema)
  ELSE {}

Earlier(p, q) == p[1] < q[1] \/ (p[1] = q[1] /\ p[2] < q[2])

\* the item at place p has no non-empty value for a field that is marked
\* required or that is the unique field
MissesField(doc, p) ==
  LET item == doc.items[p[1]]
      rule == doc.schema[p[2]]
  IN  /\ (Has(rule, "required") /\ rule.required) \/ rule.field = Get(doc, "unique_field")
      /\ Get(item, rule.field) \in {NULL, ""}

\* the target_field values of the items of the stored target vocabulary
TargetValues(st, rule) ==
  UNION {{Get(t.items[i], rule.link_field) : i \in DOMAIN t.items} :
           t \in {d \in st : d._id = rule.link_vocab /\ ~IsDeleted(d)}}

\* the item at place p carries, in a LinkReference field, a value that is not
\* among the target values
DanglingLink(doc, st, p) ==
  LET item == doc.items[p[1]]
      rule == doc.schema[p[2]]
  IN  /\ Has(rule, "link_vocab") /\ Has(rule, "link_field")
      /\ Get(item, rule.field) \notin {NULL, ""}
      /\ item[rule.field] \notin TargetValues(st, rule)

FirstPlace(S) == CHOOSE p \in S : \A q \in S : q = p \/ Earlier(p, q)

MissingPlaces(doc) == {p \in Places(doc) : MissesField(doc, p)}

DanglingPlaces(doc, st) == {p \in Places(doc) : DanglingLink(doc, st, p)}

\* the errors as the payloads address them: field name and 0-based item index
MissingFieldAt(doc, p) ==
  [kind |-> "required", field |-> doc.schema[p[2]].field, item |-> p[1] - 1]

DanglingLinkAt(doc, p) ==
  [kind |-> "not_found", field |-> doc.schema[p[2]].field, item |-> p[1] - 1]

Rejected == last.err # Ok /\ store = last.before /\ published = <<>>

ReferencedTargets(doc) ==
  IF "schema" \in DOMAIN doc
  THEN {doc.schema[i].link_vocab :
          i \in {j \in DOMAIN doc.schema :
                   "link_vocab" \in DOMAIN doc.schema[j] /\ "link_field" \in DOMAIN doc.schema[j]}}
  ELSE {}

\* C19: one validation call queries the store at most once per distinct
\* referenced target vocabulary, whatever the number of items, also when the
\* target does not exist or has no items.
C19_OneLookupPerTarget ==
  Validates =>
    ValidateItems(Candidate, last.before).queries <= Cardinality(ReferencedTargets(Candidate))

(* ------------- SpecKeywords: the keywords vocabulary merger ------------ *)

Keywords == {"Paris", "paris", "London"}

KeywordBatches == SeqsUpTo(Keywords, MaxKeywords)

\* keywords vocabularies an editor may have posted before the first merge
KeywordDocs ==
  {[_id |-> KEYWORDS_CV, items |-> l] : l \in {<<>>, <<KeywordItem("paris")>>}}
  \cup {[_id |-> KEYWORDS_CV, items |-> l, unique_field |-> "name"] :
          l \in {<<>>, <<KeywordItem("paris")>>}}

NextKeywords ==
  \/ \E doc \in KeywordDocs : Create(<<doc>>)
  \/ \E keywords \in KeywordBatches : AddMissingKeywords(keywords)
  \/ Respond

SpecKeywords == Init /\ [][NextKeywords]_vars

(* ---------------------- claims under SpecKeywords ---------------------- *)

\* the items of the live keywords vocabulary of a store, none when there is
\* no such vocabulary
KeywordItems(st) ==
  IF Live(st, KEYWORDS_CV) = {} THEN <<>> ELSE FindOne(st, KEYWORDS_CV).items

Names(items) == [i \in DOMAIN items |-> items[i].name]

\* the keywords of a batch that are new to a set of lower-cased names, each
\* kept at its first occurrence only
RECURSIVE FirstSeen(_, _)
FirstSeen(keywords, seen) ==
  IF keywords = <<>> THEN <<>>
  ELSE IF Lower(Head(keywords)) \in seen THEN FirstSeen(Tail(keywords), seen)
  ELSE <<Head(keywords)>> \o FirstSeen(Tail(keywords), seen \cup {Lower(Head(keywords))})

NoNameTwice(items) ==
  \A i, j \in DOMAIN items : i # j => Lower(items[i].name) # Lower(items[j].name)

MergeCall == last.op = "add_missing_keywords" /\ last.keywords # <<>>

\* the batch holds no spelling twice, and two spellings of one keyword
CaseVariants(keywords) ==
  /\ \A i, j \in DOMAIN keywords : i # j => keywords[i] # keywords[j]
  /\ \E i, j \in DOMAIN keywords : i # j /\ Lower(keywords[i]) = Lower(keywords[j])

\* C5: from a store with no keywords vocabulary, or one without items, a merge
\* of a batch that holds case-variants of a keyword leaves exactly one item per case-insensitively distinct keyword, in the
\* first-seen spelling, with name = qcode = keyword and is_active true.
C5_OneItemPerDistinctKeyword ==
  (MergeCall /\ CaseVariants(last.keywords) /\ KeywordItems(last.before) = <<>>)
    => /\ Live(store, KEYWORDS_CV) # {}
       /\ KeywordItems(store) =
            [i \in DOMAIN FirstSeen(last.keywords, {}) |->
               [name |-> FirstSeen(last.keywords, {})[i],
                qcode |-> FirstSeen(last.keywords, {})[i],
                is_active |-> TRUE]]

\* C6: after a successful merge, a second merge of the same batch changes
\* nothing: it succeeds, writes nothing to the store (every write is followed
\* by its notification) and publishes nothing.
C6_SecondMergeIsNoOp ==
  (MergeCall /\ last.err = Ok)
    => /\ AddMissing(last.keywords, store).err = Ok
       /\ AddMissing(last.keywords, store).store = store
       /\ AddMissing(last.keywords, store).published = <<>>

\* a merge that found all its keywords stored by an earlier merge: nothing
\* written, nothing published
C6_Witness ==
  /\ MergeCall
  /\ last.err = Ok
  /\ Len(KeywordItems(last.before)) >= 2
  /\ store = last.before
  /\ published = <<>>
  /\ \A i \in DOMAIN last.keywords :
       \E j \in DOMAIN KeywordItems(store) :
         Lower(KeywordItems(store)[j].name) = Lower(last.keywords[i])

\* C7: a successful merge into an existing keywords vocabulary keeps the
\* stored items as a prefix, appends exactly the keywords new to the stored
\* names, each once and in its spelling, and leaves no name twice ignoring
\* case.
C7_AppendsEachMissingOnce ==
  (MergeCall /\ last.err = Ok /\ Live(last.before, KEYWORDS_CV) # {})
    => /\ KeywordItems(store) =
            KeywordItems(last.before) \o
              [i \in DOMAIN FirstSeen(last.keywords,
                                      {Lower(n) : n \in Range(Names(KeywordItems(last.before)))}) |->
                 KeywordItem(FirstSeen(last.keywords,
                                       {Lower(n) : n \in Range(Names(KeywordItems(last.before)))})[i])]
       /\ NoNameTwice(KeywordItems(store))

(* ------ SpecLifecycle: batches, custom vocabularies and deletion ------- *)

LifecycleIds == {"languages", "countries", "headline"}

\* one item with the required name, one without it
LifecycleItemLists == {<<[name |-> "a"]>>, <<[qcode |-> "a"]>>}

LifecycleDocs ==
  {[_id |-> id, items |-> l, schema |-> <<RequiredEntry>>] :
     id \in LifecycleIds, l \in LifecycleItemLists}
  \cup {[_id |-> id, items |-> l, schema |-> <<RequiredEntry>>, field_type |-> t] :
          id \in LifecycleIds, l \in LifecycleItemLists, t \in {NULL, "text"}}

LifecycleBatches == SeqsUpTo(LifecycleDocs, MaxBatch)

LifecycleUpdates ==
  {[field_type |-> "text"]} \cup {[items |-> l] : l \in LifecycleItemLists}

NextLifecycle ==
  \/ \E docs \in LifecycleBatches : Create(docs)
  \/ \E id \in LifecycleIds, updates \in LifecycleUpdates : Update(id, updates)
  \/ \E doc \in LifecycleDocs : Replace(doc._id, doc)
  \/ \E id \in LifecycleIds : Delete(id)
  \/ Respond

SpecLifecycle == Init /\ [][NextLifecycle]_vars

(* --------------------- claims under SpecLifecycle ---------------------- *)

\* the document breaks no rule of its own schema against the store
ValidDoc(doc, st) == MissingPlaces(doc) = {} /\ DanglingPlaces(doc, st) = {}

\* a custom field whose id is a reserved system key
ReservedId(doc) == Get(doc, "field_type") \notin {NULL, ""} /\ doc._id \in SystemKeys

\* the id was used by a vocabulary that is now soft-deleted
DeletedId(doc, st) == \E d \in st : d._id = doc._id /\ IsDeleted(d)

CreateCall == last.op = "create"

\* every soft-deleted record of the store the call started from is still
\* in the store, as it was
DeletedRecordsKept == \A d \in last.before : IsDeleted(d) => d \in store

\* C8 as stated: a create of a document whose id belongs to a soft-deleted
\* vocabulary is rejected with the conflict error marking _id as deleted, and
\* soft-deleted records stay in the store.
C8_DeletedIdConflictAlways ==
  /\ CreateCall =>
       \A i \in DOMAIN last.docs :
         DeletedId(last.docs[i], last.before)
           => Rejected /\ last.err = [kind |-> "deleted", id |-> last.docs[i]._id]
  /\ last # Idle => DeletedRecordsKept

\* C8 amended: a create of a document whose id belongs to a soft-deleted
\* vocabulary is always rejected and stores nothing; the error is the conflict
\* error marking _id as deleted when the earlier documents of the batch pass
\* every check and the document itself passes validation and the reserved-key
\* check, which run first; soft-deleted records stay in the store.
C8_DeletedIdNeverReused ==
  /\ CreateCall =>
       \A i \in DOMAIN last.docs :
         DeletedId(last.docs[i], last.before)
           => /\ Rejected
              /\ (/\ \A j \in 1..(i - 1) :
                       /\ ValidDoc(last.docs[j], last.before)
                       /\ ~ReservedId(last.docs[j])
                       /\ ~DeletedId(last.docs[j], last.before)
                  /\ ValidDoc(last.docs[i], last.before)
                  /\ ~ReservedId(last.docs[i]))
                 => last.err = [kind |-> "deleted", id |-> last.docs[i]._id]
  /\ last # Idle => DeletedRecordsKept

\* a batch whose second document reuses a soft-deleted id, answered with the
\* deleted-id conflict; the deleted record is still there
C8_Witness ==
  /\ CreateCall
  /\ Len(last.docs) = 2
  /\ DeletedId(last.docs[2], last.before)
  /\ last.err = [kind |-> "deleted", id |-> last.docs[2]._id]
  /\ \E d \in store : d._id = last.docs[2]._id /\ IsDeleted(d)
  /\ store = last.before

\* C9: deleting a vocabulary without field_type is rejected and leaves the
\* store unchanged, deleting one with field_type is allowed and flags it;
\* no vocabulary without field_type is ever flagged as deleted.
C9_OnlyCustomVocabulariesDeleted ==
  /\ last.op = "delete" =>
       LET doc == FindOne(last.before, last.id)
       IN  IF "field_type" \in DOMAIN doc
           THEN /\ last.err = Ok
                /\ \E d \in store : d._id = last.id /\ IsDeleted(d)
                /\ Live(store, last.id) = {}
           ELSE /\ last.err # Ok
                /\ store = last.before
  /\ \A d \in store : IsDeleted(d) => "field_type" \in DOMAIN d

\* a delete of a vocabulary without field_type was refused while another
\* vocabulary, with field_type, is flagged as deleted
C9_Witness ==
  /\ last.op = "delete"
  /\ "field_type" \notin DOMAIN FindOne(last.before, last.id)
  /\ last.err # Ok
  /\ store = last.before
  /\ \E d \in store : IsDeleted(d)

\* C10: a create batch with a document that fails validation, collides with a
\* reserved system key or reuses a soft-deleted id is rejected as a whole:
\* nothing of it is stored and no created notification is published.
C10_BatchRejectedAsAWhole ==
  (/\ CreateCall
   /\ \E i \in DOMAIN last.docs :
        \/ ~ValidDoc(last.docs[i], last.before)
        \/ ReservedId(last.docs[i])
        \/ DeletedId(last.docs[i], last.before))
    => /\ last.err # Ok
       /\ store = last.before
       /\ published = <<>>

\* a batch whose first document passes every check and whose second fails:
\* the first is not in the store
C10_Witness ==
  /\ CreateCall
  /\ Len(last.docs) = 2
  /\ ValidDoc(last.docs[1], last.before)
  /\ ~ReservedId(last.docs[1])
  /\ ~DeletedId(last.docs[1], last.before)
  /\ ~ValidDoc(last.docs[2], last.before)
  /\ last.err # Ok
  /\ \A d \in store : d._id # last.docs[1]._id
  /\ published = <<>>

\* C14: a create of a vocabulary that declares field_type under a reserved
\* system key is rejected, with the conflict error when nothing else is wrong
\* with the batch; and no stored vocabulary that declares field_type has an
\* id in the system-key set.
C14_NoCustomVocabularyUnderSystemKey ==
  /\ CreateCall =>
       \A i \in DOMAIN last.docs :
         ReservedId(last.docs[i])
           => /\ Rejected
              /\ (\A j \in 1..i :
                    ValidDoc(last.docs[j], last.before) /\ ~DeletedId(last.docs[j], last.before))
                   => last.err.kind = "conflict"
  /\ \A d \in store :
       (~IsDeleted(d) /\ Get(d, "field_type") \notin {NULL, ""}) => d._id \notin SystemKeys

(* ------------------------------ read side ----------------------------- *)

\* {}
EmptyDict == [k \in {} |-> NULL]

\* an optional argument that is not a string: <<>> for None, <<v>> for v
NoArg == <<>>

\* faulty variant: an item without is_active does not count as active
ItemIsActiveNoDefault(item) == Has(item, "is_active") /\ item.is_active

\* line 508: i.get("is_active", True)
ItemIsActive(item) == IF Has(item, "is_active") THEN item.is_active ELSE TRUE

\* line 478-496: the $elemMatch conditions of the projection; the anchored,
\* case-insensitive regex of a plain name is equality ignoring case
ElemMatch(item, qcode, name, lang) ==
  /\ Truthy(qcode) => Get(item, "qcode") = qcode
  /\ (Truthy(name) /\ Truthy(lang)) =>
       /\ Has(item, "translations")
       /\ Has(item.translations, "name")
       /\ Has(item.translations.name, lang)
       /\ Lower(item.translations.name[lang]) = Lower(name)
  /\ (Truthy(name) /\ ~Truthy(lang)) =>
       Has(item, "name") /\ Lower(item.name) = Lower(name)

\* line 510-516: format_item
FormatItem(item, _id) ==
  SetKey([k \in DOMAIN item \ {"is_active"} |-> item[k]], "scheme", _id)

\* faulty variant: the is_active filter handed to the store with the
\* projection, so that the first match among the wanted items comes back
GetItemsResultFilterInStore(st, _id, qcode, is_active, name, lang) ==
  LET doc == FindOne(st, _id)
      wanted == IF is_active # NoArg
                THEN SelectSeq(doc.items, LAMBDA i : ItemIsActive(i) = is_active[1])
                ELSE doc.items
      matching == SelectSeq(wanted, LAMBDA i : ElemMatch(i, qcode, name, lang))
      items == IF Truthy(qcode) \/ Truthy(name)
               THEN SubSeq(matching, 1, IF matching = <<>> THEN 0 ELSE 1)
               ELSE wanted
  IN  IF Live(st, _id) = {} THEN <<>>
      ELSE IF ~Has(doc, "items") THEN <<>>
      ELSE [i \in DOMAIN items |-> FormatItem(items[i], _id)]

\* get_items: the list it returns.  With a projection the store hands back
\* the first matching item only, and no items key when none matches.
GetItemsResult(st, _id, qcode, is_active, name, lang) ==
  LET doc == FindOne(st, _id)
      matching == SelectSeq(doc.items, LAMBDA i : ElemMatch(i, qcode, name, lang))
      projected == IF Truthy(qcode) \/ Truthy(name)
                   THEN SubSeq(matching, 1, IF matching = <<>> THEN 0 ELSE 1)
                   ELSE doc.items
      items == IF is_active # NoArg
               THEN SelectSeq(projected, LAMBDA i : ItemIsActive(i) = is_active[1])
               ELSE projected
  IN  IF Live(st, _id) = {} THEN <<>>
      ELSE IF ~Has(doc, "items") THEN <<>>
      ELSE [i \in DOMAIN items |-> FormatItem(items[i], _id)]

GetItems(_id, qcode, is_active, name, lang) ==
  /\ last = Idle
  /\ last' = [op |-> "get_items", id |-> _id, qcode |-> qcode, is_active |-> is_active,
              name |-> name, lang |-> lang,
              result |-> GetItemsResult(store, _id, qcode, is_active, name, lang),
              err |-> Ok, before |-> store]
  /\ UNCHANGED <<store, published, calls>>

(* Objects of a get_locale_vocabulary call.  heap.dicts[a] is the dict at    *)
(* address a, heap.lists[a] the list at address a, a list holding the       *)
(* addresses of its dicts; a variable of the method holds an address.       *)

\* the caller's objects: item i at dict address i, the list at list address 1
Objects(items) == [dicts |-> items, lists |-> <<[i \in DOMAIN items |-> i]>>]

\* the dicts a list refers to
Deref(heap, list) == [i \in DOMAIN heap.lists[list] |-> heap.dicts[heap.lists[list][i]]]

\* faulty variant: new_item = item, the same object
CopyByReference(heap, item) == [heap |-> heap, ref |-> item]

\* line 400: item.copy(), a new dict with the same keys and values
Copy(heap, item) ==
  [heap |-> [heap EXCEPT !.dicts = Append(@, heap.dicts[item])],
   ref |-> Len(heap.dicts) + 1]

\* faulty variant: the translation is written whether or not the item has the field
OverlayAnyField(heap, new_item, language) ==
  LET d == heap.dicts[new_item]
      translations == IF Has(d, "translations") THEN d.translations ELSE EmptyDict
      translated == {field \in DOMAIN translations : language \in DOMAIN translations[field]}
  IN  [heap EXCEPT !.dicts[new_item] =
         [field \in DOMAIN d \cup translated |->
            IF field \in translated THEN translations[field][language] ELSE d[field]]]

\* line 402-404: new_item[field] = values[language] for the fields of
\* translations that new_item has and that have the language
Overlay(heap, new_item, language) ==
  LET d == heap.dicts[new_item]
      translations == IF Has(d, "translations") THEN d.translations ELSE EmptyDict
      translated == {field \in DOMAIN translations :
                       field \in DOMAIN d /\ language \in DOMAIN translations[field]}
  IN  [heap EXCEPT !.dicts[new_item] =
         [field \in DOMAIN d |->
            IF field \in translated THEN translations[field][language] ELSE d[field]]]

\* line 396-404: the loop from item i on, locale_vocabulary the address of the
\* list being filled
RECURSIVE LocaleFrom(_, _, _, _, _)
LocaleFrom(heap, vocabulary, language, i, locale_vocabulary) ==
  IF i > Len(heap.lists[vocabulary])
  THEN [heap |-> heap, result |-> locale_vocabulary]
  ELSE LET item == heap.lists[vocabulary][i]
       IN  IF ~Has(heap.dicts[item], "translations")
           THEN LocaleFrom([heap EXCEPT !.lists[locale_vocabulary] = Append(@, item)],
                           vocabulary, language, i + 1, locale_vocabulary)
           ELSE LET c == Copy(heap, item)
                    appended == [c.heap EXCEPT !.lists[locale_vocabulary] = Append(@, c.ref)]
                IN  LocaleFrom(Overlay(appended, c.ref, language),
                               vocabulary, language, i + 1, locale_vocabulary)

\* get_locale_vocabulary on the list at address vocabulary: the heap it
\* leaves and the address of the list it returns
LocaleVocabulary(heap, vocabulary, language) ==
  IF heap.lists[vocabulary] = <<>> \/ ~Truthy(language)
  THEN [heap |-> heap, result |-> vocabulary]
  ELSE LocaleFrom([heap EXCEPT !.lists = Append(@, <<>>)], vocabulary, language, 1,
                  Len(heap.lists) + 1)

\* get_locale_vocabulary seen from a caller that keeps no reference to its
\* argument: the items of the returned list
LocaleItems(items, language) ==
  Deref(LocaleVocabulary(Objects(items), 1, language).heap,
        LocaleVocabulary(Objects(items), 1, language).result)

GetLocaleVocabulary(items, language) ==
  /\ last = Idle
  /\ last' = [op |-> "get_locale_vocabulary", language |-> language,
              objects |-> Objects(items), vocabulary |-> 1,
              heap |-> LocaleVocabulary(Objects(items), 1, language).heap,
              result |-> LocaleVocabulary(Objects(items), 1, language).result,
              err |-> Ok, before |-> store]
  /\ UNCHANGED <<store, published, calls>>

(* A value of a typed field is [str |-> s] as text and [int |-> n] as a     *)
(* number, so that "10" and 10 are different values that can be compared.   *)

\* int("...") on the texts the model uses
ParseInt(s) == CASE s = "10" -> 10 [] s = "20" -> 20

\* serialize_value("integer", value)
SerializeInteger(value) == IF Has(value, "str") THEN [int |-> ParseInt(value.str)] ELSE value

\* line 44-49: vocab_schema.get(_id, {}), every field of it an integer
VocabSchema(_id) == IF _id = "crop_sizes" THEN {"width", "height"} ELSE {}

\* _cast_items
CastItems(vocab) ==
  IF ~Has(vocab, "items") THEN vocab
  ELSE SetKey(vocab, "items",
              [i \in DOMAIN vocab.items |->
                 [field \in DOMAIN vocab.items[i] |->
                    IF field \in VocabSchema(Get(vocab, "_id"))
                    THEN SerializeInteger(vocab.items[i][field])
                    ELSE vocab.items[i][field]]])

\* faulty variant: the items kept keep their is_active key
FilterInactiveKeepsKey(item) ==
  SetKey(item, "items", SelectSeq(item.items, LAMBDA voc : ItemIsActive(voc)))

\* _filter_inactive_vocabularies
FilterInactiveVocabularies(item) ==
  LET active_vocs == SelectSeq(item.items, LAMBDA voc : ItemIsActive(voc))
  IN  SetKey(item, "items",
             [i \in DOMAIN active_vocs |->
                [k \in DOMAIN active_vocs[i] \ {"is_active"} |-> active_vocs[i][k]]])

\* line 242-245: the request has a where clause whose type is manageable
WhereManageable(where) == where # NoArg /\ Get(where[1], "type") = "manageable"

\* on_fetched, on the list of vocabularies of the response
OnFetched(items, where) ==
  IF WhereManageable(where) THEN items
  ELSE [i \in DOMAIN items |-> CastItems(FilterInactiveVocabularies(items[i]))]

\* on_fetched_item
OnFetchedItem(doc) == CastItems(FilterInactiveVocabularies(doc))

\* the ids SpecRead stores, in the order a listing returns them
ReadIds == {"crop_sizes", "languages"}

ListOrder == <<"crop_sizes", "languages">>

\* the store's answer to GET /vocabularies?where=...: the live documents that
\* match the clause
Listed(st, where) ==
  LET clause == IF where = NoArg THEN EmptyDict ELSE where[1]
      matches(id) == /\ Live(st, id) # {}
                     /\ \A k \in DOMAIN clause : Get(FindOne(st, id), k) = clause[k]
      ids == SelectSeq(ListOrder, matches)
  IN  [i \in DOMAIN ids |-> FindOne(st, ids[i])]

\* GET of the collection: the listing, then on_fetched
Fetch(where) ==
  /\ last = Idle
  /\ last' = [op |-> "fetch", where |-> where, fetched |-> Listed(store, where),
              result |-> OnFetched(Listed(store, where), where),
              err |-> Ok, before |-> store]
  /\ UNCHANGED <<store, published, calls>>

\* GET of one live vocabulary: the lookup, then on_fetched_item
FetchItem(id, where) ==
  /\ last = Idle
  /\ Live(store, id) # {}
  /\ last' = [op |-> "fetch_item", where |-> where, fetched |-> <<FindOne(store, id)>>,
              result |-> <<OnFetchedItem(FindOne(store, id))>>,
              err |-> Ok, before |-> store]
  /\ UNCHANGED <<store, published, calls>>

\* faulty variant: original_source is preferred to source
RightsKeyOriginalFirst(item) ==
  IF Has(item, "original_source") THEN item.original_source
  ELSE IF Has(item, "source") THEN item.source
  ELSE "default"

\* line 344: item.get("source", item.get("original_source", "default"))
RightsKey(item) ==
  IF Has(item, "source") THEN item.source
  ELSE IF Has(item, "original_source") THEN item.original_source
  ELSE "default"

\* next(info for info in items if info["name"] == name), from item i on: the
\* index of the item, 0 for StopIteration, -1 for the KeyError of an item
\* without name
RECURSIVE FirstNamed(_, _, _)
FirstNamed(items, name, i) ==
  IF i > Len(items) THEN 0
  ELSE IF ~Has(items[i], "name") THEN -1
  ELSE IF items[i].name = name THEN i
  ELSE FirstNamed(items, name, i + 1)

\* line 358-362
Rights(rights) ==
  [copyrightholder |-> Get(rights, "copyrightHolder"),
   copyrightnotice |-> Get(rights, "copyrightNotice"),
   usageterms |-> Get(rights, "usageTerms")]

\* get_rightsinfo
Rightsinfo(st, item) ==
  LET all_rights == FindOne(st, "rightsinfo")
      items == LocaleItems(all_rights.items, Get(item, "language"))
      default_rights == FirstNamed(items, "default", 1)
      named == FirstNamed(items, RightsKey(item), 1)
      rights == IF named = 0 THEN default_rights ELSE named
  IN  IF Live(st, "rightsinfo") = {} THEN [err |-> Ok, result |-> EmptyDict]
      ELSE IF ~Has(all_rights, "items") THEN [err |-> Ok, result |-> EmptyDict]
      ELSE IF all_rights.items = <<>> THEN [err |-> Ok, result |-> EmptyDict]
      ELSE IF default_rights = -1 \/ named = -1 THEN [err |-> KeyError, result |-> EmptyDict]
      ELSE IF rights = 0 THEN [err |-> Ok, result |-> EmptyDict]
      ELSE [err |-> Ok, result |-> Rights(items[rights])]

GetRightsinfo(item) ==
  /\ last = Idle
  /\ last' = [op |-> "get_rightsinfo", item |-> item,
              result |-> Rightsinfo(store, item).result,
              err |-> Rightsinfo(store, item).err, before |-> store]
  /\ UNCHANGED <<store, published, calls>>

(* ---------- SpecRead: vocabularies as readers are handed them ---------- *)

ReadItems ==
  {[name |-> "Paris", qcode |-> "a", is_active |-> TRUE],
   [name |-> "London", qcode |-> "b", is_active |-> FALSE],
   [name |-> "paris", qcode |-> "a"],
   [name |-> "London", qcode |-> "b", translations |-> [name |-> [fr |-> "Paris"]]]}

ReadItemLists == SeqsUpTo(ReadItems, MaxItems)

LanguageDocs ==
  {[_id |-> "languages", type |-> "manageable", items |-> l] : l \in ReadItemLists}

\* crop sizes as they are stored, the width as text
CropItems ==
  {[name |-> "4-3", width |-> [str |-> "10"], is_active |-> FALSE],
   [name |-> "16-9", width |-> [str |-> "20"]]}

CropDocs ==
  {[_id |-> "crop_sizes", type |-> "unmanageable", items |-> l] :
     l \in SeqsUpTo(CropItems, MaxItems)}

ReadDocs == LanguageDocs \cup CropDocs

\* the where argument of a request: none, or the parsed clause
Wheres == {NoArg, <<[type |-> "manageable"]>>, <<[type |-> "unmanageable"]>>, <<EmptyDict>>}

IsActiveArgs == {NoArg, <<TRUE>>, <<FALSE>>}

\* items as get_locale_vocabulary is handed them
TranslatedItems ==
  {[name |-> "Global"],
   [name |-> "Global", translations |-> [name |-> [fr |-> "Monde"]]],
   [name |-> "Global", translations |-> [name |-> [fr |-> "Monde", de |-> "Welt"],
                                         qcode |-> [fr |-> "m"]]],
   [name |-> "Global", qcode |-> "g", translations |-> [qcode |-> [de |-> "w"]]],
   [name |-> "Global", translations |-> EmptyDict]}

TranslatedItemLists == SeqsUpTo(TranslatedItems, MaxItems)

Languages == {NULL, "", "fr", "de"}

NextRead ==
  \/ \E doc \in ReadDocs : Create(<<doc>>)
  \/ \E id \in {"languages", "countries"}, qcode \in {NULL, "a"}, is_active \in IsActiveArgs,
        name \in {NULL, "PARIS"}, lang \in {NULL, "fr"} :
       GetItems(id, qcode, is_active, name, lang)
  \/ \E id \in ReadIds, where \in Wheres : FetchItem(id, where)
  \/ \E where \in Wheres : Fetch(where)
  \/ Respond

SpecRead == Init /\ [][NextRead]_vars

(* ------------------------ claims under SpecRead ------------------------ *)

\* the stored items of a vocabulary, none when it is not found or has none
StoredItems(st, id) ==
  IF \E d \in st : d._id = id /\ ~IsDeleted(d) /\ "items" \in DOMAIN d
  THEN (CHOOSE d \in st : d._id = id /\ ~IsDeleted(d)).items
  ELSE <<>>

\* is_active of an item, an absent is_active counting as true
ActiveFlag(item) == IF "is_active" \in DOMAIN item THEN item.is_active ELSE TRUE

\* item b is item a without is_active
SameButIsActive(a, b) ==
  /\ DOMAIN b = DOMAIN a \ {"is_active"}
  /\ \A k \in DOMAIN b : b[k] = a[k]

\* C11: getItems(vocabId, isActive=v), v not null and no other filter, returns
\* in stored order exactly the stored items whose is_active equals v (absent
\* counts as true), each without is_active and with scheme = vocabId; nothing
\* when the vocabulary is not found or has no items.
C11_GetItemsFiltersByIsActive ==
  (/\ last.op = "get_items"
   /\ last.is_active # NoArg
   /\ last.qcode = NULL /\ last.name = NULL)
    => LET wanted == SelectSeq(StoredItems(last.before, last.id),
                               LAMBDA i : ActiveFlag(i) = last.is_active[1])
       IN  /\ Len(last.result) = Len(wanted)
           /\ \A k \in DOMAIN wanted :
                /\ "is_active" \notin DOMAIN last.result[k]
                /\ last.result[k].scheme = last.id
                /\ SameButIsActive(wanted[k],
                                   [f \in DOMAIN last.result[k] \ {"scheme"} |-> last.result[k][f]])

\* getItems("languages", isActive=true) over an item without is_active and an
\* inactive one returns the first only
C11_Witness ==
  /\ last.op = "get_items"
  /\ last.is_active = <<TRUE>>
  /\ last.qcode = NULL /\ last.name = NULL
  /\ Len(StoredItems(last.before, last.id)) = 2
  /\ "is_active" \notin DOMAIN StoredItems(last.before, last.id)[1]
  /\ ~ActiveFlag(StoredItems(last.before, last.id)[2])
  /\ Len(last.result) = 1
  /\ last.result[1].name = StoredItems(last.before, last.id)[1].name

\* the fields typed coercion may rewrite
TypedFields == {"width", "height"}

\* the caller's query explicitly filters for type = manageable
AsksManageable ==
  /\ last.where # NoArg
  /\ "type" \in DOMAIN last.where[1]
  /\ last.where[1].type = "manageable"

\* vocabulary r is vocabulary s with every item whose is_active is false
\* dropped and is_active removed from the others (typed fields aside)
Stripped(s, r) ==
  LET kept == SelectSeq(s.items, LAMBDA it : ActiveFlag(it))
  IN  /\ DOMAIN r = DOMAIN s
      /\ \A k \in DOMAIN s \ {"items"} : r[k] = s[k]
      /\ Len(r.items) = Len(kept)
      /\ \A i \in DOMAIN kept :
           /\ DOMAIN r.items[i] = DOMAIN kept[i] \ {"is_active"}
           /\ \A f \in DOMAIN r.items[i] \ TypedFields : r.items[i][f] = kept[i][f]

\* C16 as stated: the fetched-batch hook and the fetched-single-item hook
\* both return the stored vocabularies untouched when the query filters for
\* type = manageable, and stripped of inactive items and is_active otherwise.
C16_BothHooksKeepManageable ==
  last.op \in {"fetch", "fetch_item"} =>
    /\ Len(last.result) = Len(last.fetched)
    /\ \A i \in DOMAIN last.fetched :
         IF AsksManageable
         THEN last.result[i] = last.fetched[i]
         ELSE Stripped(last.fetched[i], last.result[i])

\* C16 amended: the fetched-batch hook returns the stored vocabularies
\* untouched when the query filters for type = manageable; in every other
\* case, and the fetched-single-item hook whatever the query, the hooks drop
\* each item whose is_active is false and remove is_active from the others.
C16_BatchHookKeepsManageable ==
  /\ last.op = "fetch" =>
       /\ Len(last.result) = Len(last.fetched)
       /\ \A i \in DOMAIN last.fetched :
            IF AsksManageable
            THEN last.result[i] = last.fetched[i]
            ELSE Stripped(last.fetched[i], last.result[i])
  /\ last.op = "fetch_item" =>
       /\ Len(last.result) = 1
       /\ Stripped(last.fetched[1], last.result[1])

\* a listing filtered for type = manageable came back with its inactive item
\* and its is_active keys, while the store also holds a vocabulary of
\* another type
C16_BatchWitness ==
  /\ last.op = "fetch"
  /\ AsksManageable
  /\ \E d \in last.before : d.type # "manageable"
  /\ Len(last.result) = 1
  /\ \E i \in DOMAIN last.result[1].items :
       /\ "is_active" \in DOMAIN last.result[1].items[i]
       /\ ~last.result[1].items[i].is_active
  /\ last.result = last.fetched

\* a single vocabulary fetched with a query for type = manageable came back
\* without its inactive item
C16_Witness ==
  /\ last.op = "fetch_item"
  /\ AsksManageable
  /\ Len(last.result[1].items) < Len(last.fetched[1].items)

(* ----------------- SpecLocale: the locale resolver alone --------------- *)

NextLocale ==
  \/ \E items \in TranslatedItemLists, language \in Languages :
       GetLocaleVocabulary(items, language)
  \/ Respond

SpecLocale == Init /\ [][NextLocale]_vars

(* ----------------------- claims under SpecLocale ----------------------- *)

\* the call being answered is a locale resolution
LocaleCall == last.op = "get_locale_vocabulary"

\* the items handed to the call, as they were, and the items it returned
LocaleInput == Deref(last.objects, last.vocabulary)

LocaleOutput == Deref(last.heap, last.result)

\* field F of the item has a translation for language L
HasTranslation(item, F, L) ==
  /\ "translations" \in DOMAIN item
  /\ F \in DOMAIN item.translations
  /\ L \in DOMAIN item.translations[F]

\* C12: locale resolution with language L returns, for each input item in
\* order, an item with the same fields in which every field that has
\* translations[F][L] carries that value and every other field its base value.
C12_LocaleOverlaysTranslatedFields ==
  LocaleCall =>
    /\ Len(LocaleOutput) = Len(LocaleInput)
    /\ \A i \in DOMAIN LocaleInput :
         /\ DOMAIN LocaleOutput[i] = DOMAIN LocaleInput[i]
         /\ \A F \in DOMAIN LocaleInput[i] :
              LocaleOutput[i][F] =
                IF HasTranslation(LocaleInput[i], F, last.language)
                THEN LocaleInput[i].translations[F][last.language]
                ELSE LocaleInput[i][F]

\* resolved with "fr", an item with a French name comes back translated and
\* the item next to it, which has a translation for a field it lacks, comes
\* back as it was
C12_Witness ==
  /\ LocaleCall
  /\ last.language = "fr"
  /\ Len(LocaleInput) = 2
  /\ HasTranslation(LocaleInput[1], "name", "fr")
  /\ LocaleOutput[1].name = "Monde"
  /\ "translations" \in DOMAIN LocaleInput[2]
  /\ LocaleOutput[2] = LocaleInput[2]

\* C13: locale resolution never mutates its input: after the call the input
\* list and every input item, translations included, are what they were.
C13_LocaleLeavesInputUntouched ==
  LocaleCall =>
    /\ last.heap.lists[last.vocabulary] = last.objects.lists[last.vocabulary]
    /\ \A a \in DOMAIN last.objects.dicts : last.heap.dicts[a] = last.objects.dicts[a]

\* a call that returned a translated name while the item it was handed still
\* has its base name
C13_Witness ==
  /\ LocaleCall
  /\ \E i \in DOMAIN LocaleInput :
       /\ LocaleOutput[i].name # LocaleInput[i].name
       /\ last.heap.dicts[last.objects.lists[last.vocabulary][i]].name = LocaleInput[i].name
       /\ last.heap.dicts[last.objects.lists[last.vocabulary][i]].translations
            = LocaleInput[i].translations

(* ------------- SpecRights: the rightsinfo vocabulary, read ------------- *)

RightsItems ==
  {[name |-> "AAP", copyrightHolder |-> "aap"],
   [name |-> "AFP", copyrightHolder |-> "afp", usageTerms |-> "t"],
   [name |-> "default", copyrightHolder |-> "d"],
   [name |-> "Agence", copyrightNotice |-> "n", translations |-> [name |-> [fr |-> "AFP"]]]}

RightsDocs ==
  {[_id |-> "rightsinfo", type |-> "manageable", items |-> l] :
     l \in SeqsUpTo(RightsItems, MaxItems)}

\* articles: source, original_source and language are optional
Articles ==
  {[k \in keys |-> CASE k = "source" -> s [] k = "original_source" -> o [] k = "language" -> "fr"] :
     keys \in SUBSET {"source", "original_source", "language"},
     s \in {"AAP", "Reuters"}, o \in {"AAP", "AFP"}}

NextRights ==
  \/ \E doc \in RightsDocs : Create(<<doc>>)
  \/ \E doc \in RightsDocs : Replace(doc._id, doc)
  \/ \E item \in Articles : GetRightsinfo(item)
  \/ Respond

SpecRights == Init /\ [][NextRights]_vars

(* ----------------------- claims under SpecRights ----------------------- *)

\* the rightsinfo items of the store the call started from, resolved for the
\* article's language
ResolvedRights ==
  LET items == StoredItems(last.before, "rightsinfo")
      L == IF "language" \in DOMAIN last.item THEN last.item.language ELSE NULL
  IN  [i \in DOMAIN items |->
         [F \in DOMAIN items[i] |->
            IF HasTranslation(items[i], F, L) THEN items[i].translations[F][L]
            ELSE items[i][F]]]

\* the resolved items with a given name
Named(name) == {i \in DOMAIN ResolvedRights : ResolvedRights[i].name = name}

First(S) == CHOOSE i \in S : \A j \in S : i <= j

\* the rights mapping of a resolved item
RightsOf(i) ==
  LET info == ResolvedRights[i]
      field(k) == IF k \in DOMAIN info THEN info[k] ELSE NULL
  IN  [copyrightholder |-> field("copyrightHolder"),
       copyrightnotice |-> field("copyrightNotice"),
       usageterms |-> field("usageTerms")]

RightsCall == last.op = "get_rightsinfo"

\* C17 as stated: the rights of the resolved item named as the article's
\* source; when no item matches the source, of the item matching
\* original_source; when that matches none either, of the item named
\* "default"; an empty mapping when none of these items exists.
C17_RightsFallBackWhenNoMatch ==
  RightsCall =>
    LET bySource == IF "source" \in DOMAIN last.item THEN Named(last.item.source) ELSE {}
        byOriginal == IF "original_source" \in DOMAIN last.item
                      THEN Named(last.item.original_source) ELSE {}
    IN  /\ last.err = Ok
        /\ last.result =
             IF bySource # {} THEN RightsOf(First(bySource))
             ELSE IF byOriginal # {} THEN RightsOf(First(byOriginal))
             ELSE IF Named("default") # {} THEN RightsOf(First(Named("default")))
             ELSE EmptyDict

\* C17 amended: the rights key is the article's source when the article has a
\* source, else its original_source when it has one, else "default"; the
\* result is the rights of the resolved item named as the key, of the item
\* named "default" when no item has that name, and an empty mapping when the
\* vocabulary is missing, has no items, or neither item exists.
C17_RightsByKeyThenDefault ==
  RightsCall =>
    LET key == IF "source" \in DOMAIN last.item THEN last.item.source
               ELSE IF "original_source" \in DOMAIN last.item THEN last.item.original_source
               ELSE "default"
    IN  /\ last.err = Ok
        /\ last.result =
             IF Named(key) # {} THEN RightsOf(First(Named(key)))
             ELSE IF Named("default") # {} THEN RightsOf(First(Named("default")))
             ELSE EmptyDict

\* an article whose source names no item and whose original_source names one
\* got the rights of the item named "default"
C17_Witness ==
  /\ RightsCall
  /\ "source" \in DOMAIN last.item /\ Named(last.item.source) = {}
  /\ "original_source" \in DOMAIN last.item /\ Named(last.item.original_source) # {}
  /\ Named("default") # {}
  /\ last.result = RightsOf(First(Named("default")))
  /\ last.result # RightsOf(First(Named(last.item.original_source)))

(* -------- add_missing_keywords, one step per access to the store ------ *)
(* calls[p] is the position of worker p in the method with its locals:     *)
(* keywords, the document cv as find_one returned it, updates; before is   *)
(* the store the call read, readers the workers that had read and not yet  *)
(* written when this call wrote, both kept for the statements below.       *)

\* faulty variant: updates holds the new items only
KwUpdatesMissingOnly(cv, missing) ==
  [items |-> [i \in DOMAIN missing |-> KeywordItem(missing[i])]]

\* line 415-423: updates, the stored items followed by the missing keywords
KwUpdates(cv, missing) ==
  [items |-> (IF Has(cv, "items") THEN cv.items ELSE <<>>)
               \o [i \in DOMAIN missing |-> KeywordItem(missing[i])]]

\* updates["items"] is the list of cv when cv has one: the appends of line 417
\* show in cv, the original handed to on_update and on_updated
Appended(cv, updates) == IF Has(cv, "items") THEN SetKey(cv, "items", updates.items) ELSE cv

Returned(keywords, err, written) ==
  [pc |-> "returned", keywords |-> keywords, err |-> err, written |-> written]

\* line 408-423: the call up to on_update
ReadKeywords(keywords, st) ==
  IF keywords = <<>> THEN Returned(keywords, Ok, FALSE)
  ELSE IF Live(st, KEYWORDS_CV) = {}
  THEN [pc |-> "post", keywords |-> keywords, doc |-> NewKeywordsCv(keywords)]
  ELSE LET cv == FindOne(st, KEYWORDS_CV)
           items == IF Has(cv, "items") THEN cv.items ELSE <<>>
           existing == {Lower(items[i].name) : i \in DOMAIN items}
       IN  IF \E i \in DOMAIN items : ~Has(items[i], "name")
           THEN Returned(keywords, KeyError, FALSE)
           ELSE IF Missing(keywords, existing) = <<>> THEN Returned(keywords, Ok, FALSE)
           ELSE [pc |-> "on_update", keywords |-> keywords, cv |-> cv,
                 updates |-> KwUpdates(cv, Missing(keywords, existing)),
                 err |-> Ok, written |-> FALSE, before |-> st, readers |-> {}]

\* system_update(id, updates, original): the internal update path of the
\* store, which sets the keys of updates on the document with that id
SystemUpdate(st, id, updates) ==
  IF Live(st, id) = {} THEN st ELSE Patched(st, FindOne(st, id), updates)

DuplicateKeyError(id) == [kind |-> "duplicate_key", id |-> id]

KwRead(p, keywords) ==
  /\ last = Idle
  /\ calls[p] = NoCall
  /\ calls' = [calls EXCEPT ![p] = ReadKeywords(keywords, store)]
  /\ UNCHANGED <<store, last, published>>

\* line 424
KwOnUpdate(p) ==
  /\ last = Idle
  /\ calls[p].pc = "on_update"
  /\ LET c == calls[p]
         err == OnUpdate(c.updates, Appended(c.cv, c.updates), store)
     IN  calls' = [calls EXCEPT ![p] =
                     IF err = Ok THEN [c EXCEPT !.pc = "system_update"]
                     ELSE [c EXCEPT !.pc = "returned", !.err = err]]
  /\ UNCHANGED <<store, last, published>>

\* line 425
KwSystemUpdate(p) ==
  /\ last = Idle
  /\ calls[p].pc = "system_update"
  /\ store' = SystemUpdate(store, calls[p].cv._id, calls[p].updates)
  /\ calls' = [calls EXCEPT ![p] =
                 [calls[p] EXCEPT !.pc = "on_updated", !.written = TRUE,
                                  !.readers = {q \in Callers \ {p} :
                                                 calls[q].pc \in {"on_update", "system_update"}}]]
  /\ UNCHANGED <<last, published>>

\* line 426
KwOnUpdated(p) ==
  /\ last = Idle
  /\ calls[p].pc = "on_updated"
  /\ published' = published
                    \o OnUpdated(calls[p].updates, Appended(calls[p].cv, calls[p].updates))
  /\ calls' = [calls EXCEPT ![p] = [calls[p] EXCEPT !.pc = "returned"]]
  /\ UNCHANGED <<store, last>>

\* line 447: post of the new vocabulary; the store refuses a second document
\* with the id
KwPost(p) ==
  /\ last = Idle
  /\ calls[p].pc = "post"
  /\ LET c == calls[p]
         r == IF Live(store, KEYWORDS_CV) # {}
              THEN [err |-> DuplicateKeyError(KEYWORDS_CV), store |-> store, published |-> <<>>]
              ELSE Post(<<c.doc>>, store)
     IN  /\ store' = r.store
         /\ published' = published \o r.published
         /\ calls' = [calls EXCEPT ![p] = Returned(c.keywords, r.err, r.err = Ok)]
  /\ UNCHANGED last

\* the call returns to its caller, or raises err; the notifications go out
KwReturn(p) ==
  /\ last = Idle
  /\ calls[p].pc = "returned"
  /\ calls' = [calls EXCEPT ![p] = NoCall]
  /\ published' = <<>>
  /\ UNCHANGED <<store, last>>

KwStep(p) ==
  \/ KwOnUpdate(p)
  \/ KwSystemUpdate(p)
  \/ KwOnUpdated(p)
  \/ KwPost(p)
  \/ KwReturn(p)

(* ------ SpecConcurrent: two workers merge keywords side by side -------- *)

\* keywords vocabularies as they may stand before a merge: plain, with a
\* unique field, and with a required field the merged items do not have
MergeDocs ==
  {[_id |-> KEYWORDS_CV, items |-> <<>>],
   [_id |-> KEYWORDS_CV, items |-> <<KeywordItem("paris")>>, unique_field |-> "name"],
   [_id |-> KEYWORDS_CV, items |-> <<[name |-> "paris", code |-> "a", is_active |-> TRUE]>>,
    schema |-> <<[field |-> "code", required |-> TRUE]>>]}

ConcurrentBatches == SeqsUpTo({"Paris", "London"}, MaxBatch)

NextConcurrent ==
  \/ \E doc \in MergeDocs : Create(<<doc>>)
  \/ \E p \in Callers, keywords \in ConcurrentBatches : KwRead(p, keywords)
  \/ \E p \in Callers : KwStep(p)
  \/ Respond

SpecConcurrent == Init /\ [][NextConcurrent]_vars

(* --------------------- claims under SpecConcurrent --------------------- *)

\* the call of worker p has written its item list to the store
Wrote(p) ==
  /\ calls[p].pc \in {"on_updated", "returned"}
  /\ "updates" \in DOMAIN calls[p]
  /\ calls[p].written

\* the lower-cased names of the items a call read
ReadNames(c) == {Lower(c.cv.items[i].name) : i \in DOMAIN c.cv.items}

\* the list a call writes: the items it read, then one item per keyword of
\* its batch that was not among the names it read
OwnList(c) ==
  LET new == SelectSeq(c.keywords, LAMBDA k : Lower(k) \notin ReadNames(c))
  IN  c.cv.items \o [i \in DOMAIN new |-> [name |-> new[i], qcode |-> new[i], is_active |-> TRUE]]

\* C18: when worker q had read before worker p wrote and writes after it, the
\* stored item list is exactly the list q wrote, so a keyword only p appended
\* is not in it.
C18_LastWriterWins ==
  \A p, q \in Callers :
    (p # q /\ Wrote(p) /\ Wrote(q) /\ q \in calls[p].readers)
      => /\ KeywordItems(store) = OwnList(calls[q])
         /\ \A k \in Range(calls[p].keywords) :
              (/\ Lower(k) \notin ReadNames(calls[p])
               /\ k \notin Range(Names(OwnList(calls[q]))))
                => k \notin Range(Names(KeywordItems(store)))

\* both workers read the same stored vocabulary before either wrote, both
\* wrote, and a keyword the earlier writer appended is not in the store
C18_Witness ==
  \E p, q \in Callers :
    /\ p # q /\ Wrote(p) /\ Wrote(q) /\ q \in calls[p].readers
    /\ calls[p].before = calls[q].before
    /\ \E k \in Range(calls[p].keywords) :
         /\ Lower(k) \notin ReadNames(calls[p])
         /\ k \notin Range(Names(KeywordItems(store)))
    /\ \E k \in Range(calls[q].keywords) :
         /\ Lower(k) \notin ReadNames(calls[q])
         /\ k \in Range(Names(KeywordItems(store)))

(* ---------- SpecSteps: one worker merges keywords step by step --------- *)

NextSteps ==
  \/ \E doc \in MergeDocs : Create(<<doc>>)
  \/ \E keywords \in KeywordBatches : KwRead(1, keywords)
  \/ KwStep(1)
  \/ Respond

SpecSteps == Init /\ [][NextSteps]_vars

(* ------------------------ claims under SpecSteps ----------------------- *)

\* the call of worker 1 appends to an existing vocabulary
Appending == calls[1].pc # "idle" /\ "updates" \in DOMAIN calls[1]

\* the vocabulary as the call would leave it
Merged == Merge(calls[1].cv, [items |-> OwnList(calls[1])])

\* validation and the uniqueness check pass on the merged vocabulary: every
\* rule of its schema is met, and when it declares unique_field no two of its
\* items marked active share a value ignoring case
ChecksPass ==
  /\ ValidDoc(Merged, calls[1].before)
  /\ Get(calls[1].cv, "unique_field") \notin {NULL, ""}
       => ~SetActiveDuplicate(Merged.items, calls[1].cv.unique_field)

UpdatedNotification == [event |-> "vocabularies:updated", vocabulary_id |-> KEYWORDS_CV]

\* C20: a merge into an existing keywords vocabulary goes validate, persist,
\* notify: nothing is written before the checks have passed, the write puts
\* the merged list in the store, the updated notification is published only
\* after the write, and a call that fails a check has written and published
\* nothing.
C20_ValidatePersistNotify ==
  Appending =>
    LET c == calls[1]
    IN  /\ c.pc = "on_update" => store = c.before /\ published = <<>>
        /\ c.pc = "system_update" => ChecksPass /\ store = c.before /\ published = <<>>
        /\ c.pc = "on_updated" =>
             ChecksPass /\ KeywordItems(store) = OwnList(c) /\ published = <<>>
        /\ (c.pc = "returned" /\ c.err = Ok) =>
             /\ ChecksPass
             /\ KeywordItems(store) = OwnList(c)
             /\ published = <<UpdatedNotification>>
        /\ (c.pc = "returned" /\ c.err # Ok) =>
             ~ChecksPass /\ store = c.before /\ published = <<>>

\* a merge that passed its checks, wrote and notified
C20_Witness ==
  /\ Appending
  /\ calls[1].pc = "returned" /\ calls[1].err = Ok
  /\ Get(calls[1].cv, "unique_field") = "name"
  /\ store # calls[1].before
  /\ published = <<UpdatedNotification>>

\* a merge of two spellings of a keyword into a vocabulary with a unique
\* field failed the uniqueness check and left the store as it was
C20_FailureWitness ==
  /\ Appending
  /\ calls[1].pc = "returned" /\ calls[1].err.kind = "not_unique"
  /\ store = calls[1].before
  /\ published = <<>>

(* ------- SpecQcode: get_items by qcode over items that share one ------- *)

QcodeItems ==
  {[name |-> "Paris", qcode |-> "a", is_active |-> FALSE],
   [name |-> "London", qcode |-> "a"],
   [name |-> "London", qcode |-> "A", is_active |-> TRUE],
   [name |-> "Paris", qcode |-> "b", is_active |-> TRUE],
   [name |-> "Paris"]}

QcodeDocs ==
  {[_id |-> "countries", type |-> "manageable", items |-> l] :
     l \in SeqsUpTo(QcodeItems, MaxItems)}

Qcodes == {NULL, "a", "A", "b"}

NextQcode ==
  \/ \E doc \in QcodeDocs : Create(<<doc>>)
  \/ \E id \in {"countries", "languages"}, qcode \in Qcodes, is_active \in IsActiveArgs,
        name \in {NULL, "london"}, lang \in {NULL, "fr"} :
       GetItems(id, qcode, is_active, name, lang)
  \/ Respond

SpecQcode == Init /\ [][NextQcode]_vars

(* ------------------------ claims under SpecQcode ----------------------- *)

\* a get_items call with a qcode and no name
ByQcode == last.op = "get_items" /\ last.qcode \notin {NULL, ""} /\ last.name = NULL

\* the positions of the stored items whose qcode is q
QcodeHits(items, q) ==
  {i \in DOMAIN items : "qcode" \in DOMAIN items[i] /\ items[i].qcode = q}

\* the item passes the is_active filter of the call, none when is_active is null
PassesFilter(item, is_active) == is_active = <<>> \/ ActiveFlag(item) = is_active[1]

\* C21: getItems(vocabId, qcode=q) returns at most one item: the first stored
\* item whose qcode equals q exactly, without is_active and with scheme =
\* vocabId, provided that item passes the is_active filter; otherwise nothing.
C21_FirstQcodeMatchThenFilter ==
  ByQcode =>
    LET items == StoredItems(last.before, last.id)
        hits == QcodeHits(items, last.qcode)
    IN  /\ Len(last.result) <= 1
        /\ IF hits # {} /\ PassesFilter(items[CHOOSE i \in hits : \A j \in hits : i <= j],
                                        last.is_active)
           THEN LET first == items[CHOOSE i \in hits : \A j \in hits : i <= j]
                IN  /\ Len(last.result) = 1
                    /\ last.result[1].scheme = last.id
                    /\ SameButIsActive(first,
                                       [f \in DOMAIN last.result[1] \ {"scheme"} |->
                                          last.result[1][f]])
           ELSE last.result = <<>>

\* getItems("countries", qcode="a", isActive=true) over an inactive item and
\* an active one that share qcode "a" returns nothing
C21_Witness ==
  /\ ByQcode
  /\ last.qcode = "a" /\ last.is_active = <<TRUE>>
  /\ Len(StoredItems(last.before, last.id)) = 2
  /\ QcodeHits(StoredItems(last.before, last.id), "a") = {1, 2}
  /\ ~ActiveFlag(StoredItems(last.before, last.id)[1])
  /\ ActiveFlag(StoredItems(last.before, last.id)[2])
  /\ last.result = <<>>

\* getItems("countries", qcode="a", isActive=true) over an item with qcode
\* "A" and an active one with qcode "a" returns the second
C21_ExactWitness ==
  /\ ByQcode
  /\ last.qcode = "a" /\ last.is_active = <<TRUE>>
  /\ QcodeHits(StoredItems(last.before, last.id), "a") = {2}
  /\ Get(StoredItems(last.before, last.id)[1], "qcode") = "A"
  /\ Len(last.result) = 1 /\ last.result[1].qcode = "a"

(* --- SpecIntroduce: updates that give a vocabulary its unique field --- *)

IntroduceItems ==
  {[name |-> "Paris", is_active |-> TRUE],
   [name |-> "paris", is_active |-> TRUE],
   [name |-> "paris"],
   [qcode |-> "a", is_active |-> TRUE],
   [name |-> "Paris", country |-> "a", is_active |-> TRUE]}

IntroduceItemLists == SeqsUpTo(IntroduceItems, MaxItems)

\* vocabularies without a unique field, with one that is null, and with one
\* that is set; without a schema, with one that knows the field, and with
\* one that links country to a vocabulary the store does not hold
IntroduceDocs ==
  LET plain == {[_id |-> KEYWORDS_CV, items |-> l] : l \in IntroduceItemLists}
      ruled == {SetKey(d, "schema", <<[field |-> "name"]>>) : d \in plain}
      linked == {SetKey(d, "schema", <<[field |-> "name"], LinkEntry>>) : d \in plain}
  IN  UNION {{d, SetKey(d, "unique_field", NULL), SetKey(d, "unique_field", "name")} :
               d \in plain \cup ruled \cup linked}

IntroduceUpdates ==
  {[unique_field |-> "name"]}
  \cup {[items |-> l, unique_field |-> "name"] : l \in IntroduceItemLists}
  \cup {[items |-> l] : l \in IntroduceItemLists}

NextIntroduce ==
  \/ \E doc \in IntroduceDocs : Create(<<doc>>)
  \/ \E updates \in IntroduceUpdates : Update(KEYWORDS_CV, updates)
  \/ Respond

SpecIntroduce == Init /\ [][NextIntroduce]_vars

(* ---------------------- claims under SpecIntroduce --------------------- *)

\* the document the update in flight was applied to
Original == FindOne(last.before, last.id)

\* the update in flight sets unique_field on a vocabulary that has none, or
\* an empty one
Introduces ==
  /\ last.op = "update"
  /\ Get(Original, "unique_field") \in {NULL, ""}
  /\ Get(last.updates, "unique_field") \notin {NULL, ""}

\* the update in flight was accepted and the store holds the merged document
Accepted ==
  /\ last.err = Ok
  /\ store = (last.before \ {Original}) \cup {Merge(Original, last.updates)}

\* the places where item validation finds fault with the document
Violations(doc, st) == MissingPlaces(doc) \cup DanglingPlaces(doc, st)

\* the errors of the duplicate check
DuplicateCheckErrors == {"not_unique", "empty_unique"}

\* C22 as stated: an update that introduces unique_field for the first time,
\* with or without new items, is accepted.
C22_IntroducingUpdateAccepted == Introduces => Accepted

\* C22: the update path runs the duplicate check only when the original holds
\* a non-empty unique_field.  An update that introduces unique_field is never
\* answered with an error of the duplicate check; without items it is
\* accepted, with items it is accepted exactly when the merged document
\* passes item validation: no item misses a required field or the field now
\* named by unique_field, or carries an unresolved link reference; otherwise
\* it is rejected with the error of the first such violation.
C22_IntroducedUniqueFieldUnchecked ==
  /\ (last.op = "update" /\ last.err.kind \in DuplicateCheckErrors)
       => Get(Original, "unique_field") \notin {NULL, ""}
  /\ Introduces =>
       LET merged == Merge(Original, last.updates)
       IN  /\ last.err.kind \notin DuplicateCheckErrors
           /\ IF Has(last.updates, "items") /\ Violations(merged, last.before) # {}
              THEN LET p == FirstPlace(Violations(merged, last.before))
                   IN  /\ Rejected
                       /\ last.err = IF MissesField(merged, p) THEN MissingFieldAt(merged, p)
                                     ELSE DanglingLinkAt(merged, p)
              ELSE Accepted

\* an update with items introduced unique_field and was accepted although two
\* items of the result, both with is_active set to true, share a value
\* ignoring case
C22_Witness ==
  /\ Introduces
  /\ Has(last.updates, "items")
  /\ Accepted
  /\ SetActiveDuplicate(Merge(Original, last.updates).items, last.updates.unique_field)

\* the same for an update without items, over the items already stored
C22_NoItemsWitness ==
  /\ Introduces
  /\ ~Has(last.updates, "items")
  /\ Accepted
  /\ SetActiveDuplicate(Original.items, last.updates.unique_field)

\* an update that introduces unique_field alongside an item without that
\* field was rejected with the missing-field error
C22_RejectedWitness ==
  /\ Introduces
  /\ Has(last.updates, "items")
  /\ Rejected
  /\ last.err.kind = "required"

\* an update of a vocabulary that holds a unique field was rejected by the
\* duplicate check
C22_CheckedWitness ==
  /\ last.op = "update"
  /\ Get(Original, "unique_field") = "name"
  /\ Rejected
  /\ last.err.kind = "not_unique"

(* ---- SpecDefault: schemas with and without a qcode field, validated --- *)

DefaultItems ==
  {[name |-> "Paris", qcode |-> "a"],
   [name |-> "Paris"],
   [name |-> "London", qcode |-> ""]}

DefaultItemLists == SeqsUpTo(DefaultItems, MaxItems)

QcodeEntry == [field |-> "qcode"]

DefaultSchemas == {<<[field |-> "name"]>>, <<QcodeEntry>>, <<RequiredEntry, QcodeEntry>>}

\* vocabularies with and without a schema, with and without a unique_field
\* key, the key holding null or a field name
DefaultDocs ==
  LET plain == {[_id |-> "countries", items |-> l] : l \in DefaultItemLists}
      ruled == {SetKey(d, "schema", schema) : d \in plain, schema \in DefaultSchemas}
  IN  UNION {{d, SetKey(d, "unique_field", NULL), SetKey(d, "unique_field", "name")} :
               d \in plain \cup ruled}

DefaultUpdates ==
  {[items |-> l] : l \in DefaultItemLists}
  \cup {[items |-> l, schema |-> <<QcodeEntry>>] : l \in DefaultItemLists}

NextDefault ==
  \/ \E doc \in DefaultDocs : Create(<<doc>>)
  \/ \E doc \in DefaultDocs : Replace("countries", doc)
  \/ \E updates \in DefaultUpdates : Update("countries", updates)
  \/ Respond

SpecDefault == Init /\ [][NextDefault]_vars

(* ----------------------- claims under SpecDefault ---------------------- *)

\* the schema of the document declares a qcode field
DeclaresQcode(doc) ==
  "schema" \in DOMAIN doc /\ \E i \in DOMAIN doc.schema : doc.schema[i].field = "qcode"

\* the document gets the default: it declares qcode and has no unique_field key
GetsDefault(doc) == DeclaresQcode(doc) /\ "unique_field" \notin DOMAIN doc

\* the document as validation is claimed to leave it
WithDefault(doc) ==
  IF GetsDefault(doc)
  THEN [k \in DOMAIN doc \cup {"unique_field"} |->
          IF k = "unique_field" THEN "qcode" ELSE doc[k]]
  ELSE doc

\* some item of the document has no non-empty qcode
LacksQcode(doc) ==
  "items" \in DOMAIN doc /\ \E i \in DOMAIN doc.items : Get(doc.items[i], "qcode") \in {NULL, ""}

\* the document a create or a replace has stored
StoredDoc == CHOOSE d \in store : d._id = Candidate._id /\ ~IsDeleted(d)

\* C23: when a validated document's schema declares a qcode field and the
\* document has no unique_field key, validation sets its unique_field to
\* "qcode" and the call is rejected unless every item supplies a non-empty
\* qcode; a document that has a unique_field key keeps its value, and one
\* whose schema has no qcode field gets no unique_field.  The document a
\* create or a replace stores is the validated one.
C23_QcodeIsDefaultUniqueField ==
  Validates =>
    /\ (GetsDefault(Candidate) /\ LacksQcode(Candidate)) => Rejected
    /\ (last.op \in {"create", "replace"}) =>
         IF Violations(WithDefault(Candidate), last.before) # {}
         THEN Rejected
         ELSE last.err = Ok /\ StoredDoc = WithDefault(Candidate)

\* a create of a vocabulary whose schema declares qcode, without a
\* unique_field key, stored it with unique_field "qcode"
C23_Witness ==
  /\ last.op = "create" /\ last.err = Ok
  /\ GetsDefault(Candidate)
  /\ Candidate.items # <<>>
  /\ StoredDoc.unique_field = "qcode"

\* such a document with an item without qcode was rejected
C23_RejectedWitness ==
  /\ Validates /\ Rejected
  /\ GetsDefault(Candidate) /\ LacksQcode(Candidate)
  /\ last.err.kind = "required" /\ last.err.field = "qcode"

\* a replace by a document whose schema declares qcode and whose
\* unique_field is "name" kept "name", an item without qcode included
C23_KeptWitness ==
  /\ last.op = "replace" /\ last.err = Ok
  /\ DeclaresQcode(Candidate) /\ LacksQcode(Candidate)
  /\ Get(Candidate, "unique_field") = "name"
  /\ StoredDoc.unique_field = "name"

\* a create of a document whose schema has no qcode field stored it without
\* a unique_field key
C23_NoDefaultWitness ==
  /\ last.op = "create" /\ last.err = Ok
  /\ "schema" \in DOMAIN Candidate /\ ~DeclaresQcode(Candidate)
  /\ "unique_field" \notin DOMAIN Candidate
  /\ "unique_field" \notin DOMAIN StoredDoc

====
